---- MODULE Spec2Model ----
(***************************************************************************)
(* Model of generate_diagram.py: one pass of generate_mermaid_from_csv    *)
(* over a CSV file (open, resolve the columns, ingest the rows, render the *)
(* Mermaid script, save it).  Strings are sequences of code points, so    *)
(* that lower(), strip(), the regular expression of                       *)
(* sanitize_for_mermaid_id and sorted() are computed, not assumed.        *)
(* Python's None is the empty tuple and a present value v is <<v>>.        *)
(***************************************************************************)
EXTENDS Integers, Sequences, FiniteSets, TLC

VARIABLES pc, fieldnames, col_map, nodes, edges, processed_links,
          rowsRead, platform_history, mermaid_script, result, output, error

vars == <<pc, fieldnames, col_map, nodes, edges, processed_links,
          rowsRead, platform_history, mermaid_script, result, output, error>>

(* ---------------------------- bounds ----------------------------------- *)

\* number of data rows the reader yields before the end of the file
MaxRows == 2

(* ---------------------------- strings ---------------------------------- *)

None == <<>>
Some(v) == <<v>>

Max(S) == CHOOSE x \in S : \A y \in S : y <= x
Min(S) == CHOOSE x \in S : \A y \in S : x <= y

\* str.lower() on the code points below 256
IsUpper(c) == c \in 65..90 \/ (c \in 192..222 /\ c # 215)
LowerChar(c) == IF IsUpper(c) THEN c + 32 ELSE c
lower(s) == IF Len(s) = 0 THEN <<>> ELSE [i \in 1..Len(s) |-> LowerChar(s[i])]

\* str.strip(): whitespace as str.isspace() sees it below 256
IsSpace(c) == c \in {9, 10, 11, 12, 13, 28, 29, 30, 31, 32, 133, 160}
strip(s) ==
  LET keep == {i \in 1..Len(s) : ~IsSpace(s[i])}
  IN IF keep = {} THEN <<>> ELSE SubSeq(s, Min(keep), Max(keep))

\* the complement of the class [^a-zA-Z0-9_]
IsWordChar(c) == c \in 97..122 \/ c \in 65..90 \/ c \in 48..57 \/ c = 95
SubChar(c) == IF IsWordChar(c) THEN c ELSE 95

\* a pattern that replaces white space only
sanitize_spaces_only(device_name) ==
  LET s == lower(device_name)
  IN IF Len(s) = 0 THEN <<>>
     ELSE [i \in 1..Len(s) |-> IF IsSpace(s[i]) THEN 95 ELSE s[i]]

sanitize_for_mermaid_id(device_name) ==
  LET s == lower(device_name)
  IN IF Len(s) = 0 THEN <<>> ELSE [i \in 1..Len(s) |-> SubChar(s[i])]

\* comparison of two strings as sorted() does it, by code point
RECURSIVE StrLeq(_, _)
StrLeq(a, b) ==
  IF Len(a) = 0 THEN TRUE
  ELSE IF Len(b) = 0 THEN FALSE
  ELSE IF a[1] < b[1] THEN TRUE
  ELSE IF a[1] > b[1] THEN FALSE
  ELSE StrLeq(Tail(a), Tail(b))

\* label.replace('"', '#quot;')
QuoteToken == <<35, 113, 117, 111, 116, 59>>
RECURSIVE EscapeQuotes(_)
EscapeQuotes(s) ==
  IF Len(s) = 0 THEN <<>>
  ELSE (IF s[1] = 34 THEN QuoteToken ELSE <<s[1]>>) \o EscapeQuotes(Tail(s))

(* ------------------------ literals of the source ------------------------ *)

Queried_Device_Name == <<81, 117, 101, 114, 105, 101, 100, 95, 68, 101, 118, 105, 99, 101, 95, 78, 97, 109, 101>>
Neighbor_Device_ID == <<78, 101, 105, 103, 104, 98, 111, 114, 95, 68, 101, 118, 105, 99, 101, 95, 73, 68>>
Neighbor_Platform == <<78, 101, 105, 103, 104, 98, 111, 114, 95, 80, 108, 97, 116, 102, 111, 114, 109>>
local_interface == <<108, 111, 99, 97, 108, 95, 105, 110, 116, 101, 114, 102, 97, 99, 101>>
Remote_Interface == <<82, 101, 109, 111, 116, 101, 95, 73, 110, 116, 101, 114, 102, 97, 99, 101>>
Unknown == <<85, 110, 107, 110, 111, 119, 110>>
LabelSeparator == <<32, 45, 45, 32>>
PlatformOpen == <<60, 98, 114, 47, 62, 60, 105, 62>>
PlatformClose == <<60, 47, 105, 62>>

(* ------------------------------ inputs ---------------------------------- *)

\* the header line a discovery dump carries: "Local_Interface" is spelled
\* with a capital L there, find_col asks for 'local_interface'
Local_Interface == <<76, 111, 99, 97, 108, 95, 73, 110, 116, 101, 114, 102, 97, 99, 101>>
FullHeader == <<Queried_Device_Name, Neighbor_Device_ID, Neighbor_Platform,
                Local_Interface, Remote_Interface>>

DropCol(h, i) == SubSeq(h, 1, i - 1) \o SubSeq(h, i + 1, Len(h))

\* the same header in lower case and without the optional platform column
NoPlatformHeader == [i \in 1..4 |-> lower(DropCol(FullHeader, 3)[i])]

\* headers that lack one of the mandatory columns
BrokenHeaders == {DropCol(FullHeader, i) : i \in {1, 2, 4, 5}}

\* reader.fieldnames: None for an empty file
FieldnamesChoices ==
  {None} \cup {Some(h) : h \in {FullHeader, NoPlatformHeader} \cup BrokenHeaders}

\* field values, as written in the file:  "S1", " r-1", ""
QueriedValues == {<<83, 49>>, <<32, 114, 45, 49>>, <<>>}
\* "s1 ", "R-1", " "
NeighborValues == {<<115, 49, 32>>, <<82, 45, 49>>, <<32>>}
\* "", "IOS", " NX"
PlatformValues == {<<>>, <<73, 79, 83>>, <<32, 78, 88>>}
\* "Gi1", " e0 "
LocalValues == {<<71, 105, 49>>, <<32, 101, 48, 32>>}
\* "Gi2"
RemoteValues == {<<71, 105, 50>>}

FieldValues(col) ==
  IF lower(col) = lower(Queried_Device_Name) THEN QueriedValues
  ELSE IF lower(col) = lower(Neighbor_Device_ID) THEN NeighborValues
  ELSE IF lower(col) = lower(Neighbor_Platform) THEN PlatformValues
  ELSE IF lower(col) = lower(local_interface) THEN LocalValues
  ELSE RemoteValues

\* rows with exactly one field per header column
RECURSIVE WellFormedRows(_)
WellFormedRows(h) ==
  IF Len(h) = 0 THEN {<<>>}
  ELSE {<<v>> \o r : v \in FieldValues(h[1]), r \in WellFormedRows(Tail(h))}

\* the row every malformed row is cut from or extended from: the first value
\* of each column ("S1", "R-1", "IOS", "Gi1", "Gi2")
BaseValue(col) ==
  IF lower(col) = lower(Queried_Device_Name) THEN <<83, 49>>
  ELSE IF lower(col) = lower(Neighbor_Device_ID) THEN <<82, 45, 49>>
  ELSE IF lower(col) = lower(Neighbor_Platform) THEN <<73, 79, 83>>
  ELSE IF lower(col) = lower(local_interface) THEN <<71, 105, 49>>
  ELSE <<71, 105, 50>>
BaseRow(h) == [i \in 1..Len(h) |-> BaseValue(h[i])]

\* fewer fields than the header (the blank line included), or one more ("x")
ShortRows(h) == {SubSeq(BaseRow(h), 1, k) : k \in 0..(Len(h) - 1)}
LongRows(h) == {BaseRow(h) \o << <<120>> >>}

RawRows(h) == WellFormedRows(h) \cup ShortRows(h) \cup LongRows(h)

\* the lines a file with header h may hold
FullHeaderRows == RawRows(FullHeader)
NoPlatformHeaderRows == RawRows(NoPlatformHeader)
FileRows(h) ==
  IF h = FullHeader THEN FullHeaderRows
  ELSE IF h = NoPlatformHeader THEN NoPlatformHeaderRows
  ELSE RawRows(h)

(* --------------------------- the program -------------------------------- *)

\* a lookup that compares the names as spelled
find_col_case_sensitive(names, name) ==
  LET hits == {i \in 1..Len(names) : names[i] = name}
  IN IF hits = {} THEN None ELSE Some(names[Min(hits)])

\* find_col: the first column whose lower-cased name equals name.lower()
find_col(names, name) ==
  LET hits == {i \in 1..Len(names) : lower(names[i]) = lower(name)}
  IN IF hits = {} THEN None ELSE Some(names[Min(hits)])

ResolveColMap(names) ==
  [queried           |-> find_col(names, Queried_Device_Name),
   neighbor_id       |-> find_col(names, Neighbor_Device_ID),
   neighbor_platform |-> find_col(names, Neighbor_Platform),
   local_if          |-> find_col(names, local_interface),
   remote_if         |-> find_col(names, Remote_Interface)]

\* all([...]) over the four mandatory entries (a matched name is never "")
AllMandatory(cm) ==
  /\ cm.queried # None /\ cm.neighbor_id # None
  /\ cm.local_if # None /\ cm.remote_if # None

NoColMap == [queried |-> None, neighbor_id |-> None, neighbor_platform |-> None,
             local_if |-> None, remote_if |-> None]

\* csv.DictReader: what the row dictionary holds under a key.
\*   "str"    a field of the line
\*   "none"   restval, the line ended before this column
\*   "list"   restkey None holds the surplus fields of a long line
\*   "absent" the key is not in the dictionary
LastIndexOf(names, key) == Max({i \in 1..Len(names) : names[i] = key[1]})
RowKind(names, raw, key) ==
  IF key = None
  THEN (IF Len(raw) > Len(names) THEN "list" ELSE "absent")
  ELSE IF LastIndexOf(names, key) <= Len(raw) THEN "str" ELSE "none"
RowStr(names, raw, key) == raw[LastIndexOf(names, key)]

Keys(ns) == {ns[i].key : i \in 1..Len(ns)}
NodeOf(ns, k) == ns[CHOOSE i \in 1..Len(ns) : ns[i].key = k]

\* an upsert that takes every platform a row brings
add_or_update_node_overwrite(ns, name, platform) ==
  LET node_key == lower(name)
  IN IF node_key \notin Keys(ns)
     THEN Append(ns, [key |-> node_key, display_name |-> name,
                      platform |-> IF platform # <<>> THEN platform ELSE Unknown])
     ELSE [i \in 1..Len(ns) |->
             IF ns[i].key = node_key /\ platform # <<>>
             THEN [ns[i] EXCEPT !.platform = platform]
             ELSE ns[i]]

\* an upsert keyed by the name as spelled
add_or_update_node_raw_key(ns, name, platform) ==
  LET node_key == name
  IN IF node_key \notin Keys(ns)
     THEN Append(ns, [key |-> node_key, display_name |-> name,
                      platform |-> IF platform # <<>> THEN platform ELSE Unknown])
     ELSE [i \in 1..Len(ns) |->
             IF ns[i].key = node_key /\ ns[i].platform = Unknown /\ platform # <<>>
             THEN [ns[i] EXCEPT !.platform = platform]
             ELSE ns[i]]

add_or_update_node(ns, name, platform) ==
  LET node_key == lower(name)
  IN IF node_key \notin Keys(ns)
     THEN Append(ns, [key |-> node_key, display_name |-> name,
                      platform |-> IF platform # <<>> THEN platform ELSE Unknown])
     ELSE [i \in 1..Len(ns) |->
             IF ns[i].key = node_key /\ ns[i].platform = Unknown /\ platform # <<>>
             THEN [ns[i] EXCEPT !.platform = platform]
             ELSE ns[i]]

\* a loop body without line 74
UpsertQueried_skipped(ns, queried_device_name) == ns

\* line 74: the queried device is upserted without platform information
UpsertQueried(ns, queried_device_name) ==
  add_or_update_node(ns, queried_device_name, <<>>)

\* line 75: the neighbor is upserted with the platform of the row
UpsertNeighbor(ns, neighbor_device_name, platform) ==
  add_or_update_node(ns, neighbor_device_name, platform)

\* a signature that keeps the direction of the row
link_signature_directed(queried_device_name, neighbor_device_name) ==
  <<lower(queried_device_name), lower(neighbor_device_name)>>

\* tuple(sorted([q.lower(), n.lower()]))
link_signature(queried_device_name, neighbor_device_name) ==
  LET a == lower(queried_device_name)
      b == lower(neighbor_device_name)
  IN IF StrLeq(a, b) THEN <<a, b>> ELSE <<b, a>>

NewEdge(queried_device_name, neighbor_device_name, local, remote) ==
  [from  |-> lower(queried_device_name),
   to    |-> lower(neighbor_device_name),
   label |-> strip(local) \o LabelSeparator \o strip(remote)]

\* a loop body that tests the signature before it upserts the two devices
RowStep_dedup_first(names, cm, ns, es, pl, raw) ==
  LET kq == RowKind(names, raw, cm.queried)
      kn == RowKind(names, raw, cm.neighbor_id)
      kp == RowKind(names, raw, cm.neighbor_platform)
      kl == RowKind(names, raw, cm.local_if)
      kr == RowKind(names, raw, cm.remote_if)
  IN IF kq # "str" \/ kn # "str" \/ kp \in {"none", "list"}
     THEN [nodes_mid |-> ns, nodes |-> ns, edges |-> es,
           processed_links |-> pl, raised |-> TRUE]
     ELSE
       LET q == strip(RowStr(names, raw, cm.queried))
           n == strip(RowStr(names, raw, cm.neighbor_id))
           p == IF kp = "absent" THEN <<>>
                ELSE strip(RowStr(names, raw, cm.neighbor_platform))
       IN IF q = <<>> \/ n = <<>> \/ link_signature(q, n) \in pl
          THEN [nodes_mid |-> ns, nodes |-> ns, edges |-> es,
                processed_links |-> pl, raised |-> FALSE]
          ELSE
            LET ns1 == UpsertQueried(ns, q)
                ns2 == UpsertNeighbor(ns1, n, p)
                sig == link_signature(q, n)
            IN IF kl # "str" \/ kr # "str"
               THEN [nodes_mid |-> ns1, nodes |-> ns2, edges |-> es,
                     processed_links |-> pl \cup {sig}, raised |-> TRUE]
               ELSE [nodes_mid |-> ns1, nodes |-> ns2,
                     edges |-> Append(es, NewEdge(q, n,
                                 RowStr(names, raw, cm.local_if),
                                 RowStr(names, raw, cm.remote_if))),
                     processed_links |-> pl \cup {sig}, raised |-> FALSE]

\* one iteration of "for row in reader" on a line that DictReader yields.
\* raised: an exception left the loop body (AttributeError on None.strip()
\* or list.strip()), with whatever the body had already changed.
\* nodes_mid: the node map between the two upserts.
RowStep(names, cm, ns, es, pl, raw) ==
  LET kq == RowKind(names, raw, cm.queried)
      kn == RowKind(names, raw, cm.neighbor_id)
      kp == RowKind(names, raw, cm.neighbor_platform)
      kl == RowKind(names, raw, cm.local_if)
      kr == RowKind(names, raw, cm.remote_if)
  IN IF kq # "str" \/ kn # "str" \/ kp \in {"none", "list"}
     THEN [nodes_mid |-> ns, nodes |-> ns, edges |-> es,
           processed_links |-> pl, raised |-> TRUE]
     ELSE
       LET q == strip(RowStr(names, raw, cm.queried))
           n == strip(RowStr(names, raw, cm.neighbor_id))
           p == IF kp = "absent" THEN <<>>
                ELSE strip(RowStr(names, raw, cm.neighbor_platform))
       IN IF q = <<>> \/ n = <<>>
          THEN [nodes_mid |-> ns, nodes |-> ns, edges |-> es,
                processed_links |-> pl, raised |-> FALSE]
          ELSE
            LET ns1 == UpsertQueried(ns, q)
                ns2 == UpsertNeighbor(ns1, n, p)
                sig == link_signature(q, n)
            IN IF sig \in pl
               THEN [nodes_mid |-> ns1, nodes |-> ns2, edges |-> es,
                     processed_links |-> pl, raised |-> FALSE]
               ELSE IF kl # "str" \/ kr # "str"
               THEN [nodes_mid |-> ns1, nodes |-> ns2, edges |-> es,
                     processed_links |-> pl \cup {sig}, raised |-> TRUE]
               ELSE [nodes_mid |-> ns1, nodes |-> ns2,
                     edges |-> Append(es, NewEdge(q, n,
                                 RowStr(names, raw, cm.local_if),
                                 RowStr(names, raw, cm.remote_if))),
                     processed_links |-> pl \cup {sig}, raised |-> FALSE]

\* the platforms each node has held, first to last (history of nodes,
\* extended after every upsert)
TrackPlatforms(hist, ns) ==
  [k \in (DOMAIN hist) \cup Keys(ns) |->
     IF k \notin Keys(ns) THEN hist[k]
     ELSE IF k \notin DOMAIN hist THEN <<NodeOf(ns, k).platform>>
     ELSE IF hist[k][Len(hist[k])] = NodeOf(ns, k).platform THEN hist[k]
     ELSE Append(hist[k], NodeOf(ns, k).platform)]

\* lines 100-117
NodeDeclaration(node) ==
  [node_id |-> sanitize_for_mermaid_id(node.key),
   display_name |-> node.display_name,
   display_platform |->
      IF node.platform # <<>> /\ node.platform # Unknown
      THEN PlatformOpen \o node.platform \o PlatformClose ELSE <<>>]

EdgeDeclaration(edge) ==
  [from_id |-> sanitize_for_mermaid_id(edge.from),
   label   |-> EscapeQuotes(edge.label),
   to_id   |-> sanitize_for_mermaid_id(edge.to)]

RenderScript(ns, es) ==
  [node_lines |-> [i \in 1..Len(ns) |-> NodeDeclaration(ns[i])],
   edge_lines |-> [i \in 1..Len(es) |-> EdgeDeclaration(es[i])]]

(* ------------------------------ actions --------------------------------- *)

Init ==
  /\ pc = "open"
  /\ fieldnames = None
  /\ col_map = NoColMap
  /\ nodes = <<>>
  /\ edges = <<>>
  /\ processed_links = {}
  /\ rowsRead = <<>>
  /\ platform_history = <<>>
  /\ mermaid_script = None
  /\ result = None
  /\ output = "unopened"
  /\ error = "none"

\* open(csv_filepath) succeeds
OpenFile ==
  /\ pc = "open"
  /\ pc' = "columns"
  /\ UNCHANGED <<fieldnames, col_map, nodes, edges, processed_links, rowsRead,
                 platform_history, mermaid_script, result, output, error>>

\* except FileNotFoundError: return None
FileNotFound ==
  /\ pc = "open"
  /\ pc' = "done"
  /\ error' = "file_not_found"
  /\ result' = None
  /\ UNCHANGED <<fieldnames, col_map, nodes, edges, processed_links, rowsRead,
                 platform_history, mermaid_script, output>>

\* lines 31-50: read the header, build col_map, check the mandatory columns
ResolveColumns ==
  /\ pc = "columns"
  /\ \E f \in FieldnamesChoices :
       /\ fieldnames' = f
       /\ IF f = None
          THEN \* iterating None in find_col: TypeError, caught at line 96
               /\ col_map' = col_map
               /\ pc' = "done" /\ error' = "exception"
          ELSE /\ col_map' = ResolveColMap(f[1])
               /\ IF AllMandatory(col_map')
                  THEN pc' = "rows" /\ error' = error
                  ELSE pc' = "done" /\ error' = "schema"
  /\ result' = None
  /\ UNCHANGED <<nodes, edges, processed_links, rowsRead, platform_history,
                 mermaid_script, output>>

\* an exception handler that reports the error and does not return
ReadRow_no_return ==
  /\ pc = "rows"
  /\ Len(rowsRead) < MaxRows
  /\ \E raw \in FileRows(fieldnames[1]) :
       /\ rowsRead' = Append(rowsRead, raw)
       /\ IF raw = <<>>
          THEN UNCHANGED <<nodes, edges, processed_links, platform_history,
                           pc, error>>
          ELSE LET step == RowStep(fieldnames[1], col_map, nodes, edges,
                                   processed_links, raw)
               IN /\ nodes' = step.nodes
                  /\ edges' = step.edges
                  /\ processed_links' = step.processed_links
                  /\ platform_history' =
                       TrackPlatforms(
                         TrackPlatforms(platform_history, step.nodes_mid),
                         step.nodes)
                  /\ pc' = "rows"
                  /\ error' = IF step.raised THEN "exception" ELSE error
  /\ result' = None
  /\ UNCHANGED <<fieldnames, col_map, mermaid_script, output>>

\* one line of the file: DictReader drops a blank line, the loop body runs
\* on any other
ReadRow ==
  /\ pc = "rows"
  /\ Len(rowsRead) < MaxRows
  /\ \E raw \in FileRows(fieldnames[1]) :
       /\ rowsRead' = Append(rowsRead, raw)
       /\ IF raw = <<>>
          THEN UNCHANGED <<nodes, edges, processed_links, platform_history,
                           pc, error>>
          ELSE LET step == RowStep(fieldnames[1], col_map, nodes, edges,
                                   processed_links, raw)
               IN /\ nodes' = step.nodes
                  /\ edges' = step.edges
                  /\ processed_links' = step.processed_links
                  /\ platform_history' =
                       TrackPlatforms(
                         TrackPlatforms(platform_history, step.nodes_mid),
                         step.nodes)
                  /\ IF step.raised
                     THEN pc' = "done" /\ error' = "exception"
                     ELSE pc' = "rows" /\ error' = error
  /\ result' = None
  /\ UNCHANGED <<fieldnames, col_map, mermaid_script, output>>

\* the reader is exhausted; lines 100-117 build the script
GenerateScript ==
  /\ pc = "rows"
  /\ mermaid_script' = Some(RenderScript(nodes, edges))
  /\ pc' = "save"
  /\ UNCHANGED <<fieldnames, col_map, nodes, edges, processed_links, rowsRead,
                 platform_history, result, output, error>>

\* lines 119-128: write the file when output_file is given (a failed write
\* is reported and ignored), return the script
SaveAndReturn ==
  /\ pc = "save"
  /\ \E output_file \in BOOLEAN, write_ok \in BOOLEAN :
       output' = IF ~output_file THEN "unopened"
                 ELSE IF write_ok THEN "written" ELSE "write_failed"
  /\ result' = mermaid_script
  /\ pc' = "done"
  /\ UNCHANGED <<fieldnames, col_map, nodes, edges, processed_links, rowsRead,
                 platform_history, mermaid_script, error>>

Next ==
  \/ OpenFile
  \/ FileNotFound
  \/ ResolveColumns
  \/ ReadRow
  \/ GenerateScript
  \/ SaveAndReturn

Spec == Init /\ [][Next]_vars

(* ------------- the path of one device name through the pass ------------- *)

\* longest device name drawn for the sanitization runs
MaxNameLen == 2

\* A z 7 _ - . space " and a letter outside ASCII (E acute)
NameAlphabet == {65, 122, 55, 95, 45, 46, 32, 34, 201}

RECURSIVE NamesUpTo(_)
NamesUpTo(n) ==
  IF n = 0 THEN {<<>>}
  ELSE LET shorter == NamesUpTo(n - 1)
       IN shorter \cup {Append(s, c) : s \in {t \in shorter : Len(t) = n - 1},
                                       c \in NameAlphabet}
DeviceNames == NamesUpTo(MaxNameLen)

\* the state after the full header was resolved
SanInit ==
  /\ pc = "rows"
  /\ fieldnames = Some(FullHeader)
  /\ col_map = ResolveColMap(FullHeader)
  /\ nodes = <<>>
  /\ edges = <<>>
  /\ processed_links = {}
  /\ rowsRead = <<>>
  /\ platform_history = <<>>
  /\ mermaid_script = None
  /\ result = None
  /\ output = "unopened"
  /\ error = "none"

\* the loop body on the one line "<name>,<name>,,Gi1,Gi2"
ReadNameRow ==
  /\ pc = "rows"
  /\ rowsRead = <<>>
  /\ \E name \in DeviceNames :
       LET raw == <<name, name, <<>>, <<71, 105, 49>>, <<71, 105, 50>>>>
           step == RowStep(fieldnames[1], col_map, nodes, edges,
                           processed_links, raw)
       IN /\ rowsRead' = <<raw>>
          /\ nodes' = step.nodes
          /\ edges' = step.edges
          /\ processed_links' = step.processed_links
          /\ platform_history' =
               TrackPlatforms(TrackPlatforms(platform_history, step.nodes_mid),
                              step.nodes)
          /\ IF step.raised
             THEN pc' = "done" /\ error' = "exception"
             ELSE pc' = "rows" /\ error' = error
  /\ result' = None
  /\ UNCHANGED <<fieldnames, col_map, mermaid_script, output>>

SanNext ==
  \/ ReadNameRow
  \/ GenerateScript
  \/ SaveAndReturn

SanSpec == SanInit /\ [][SanNext]_vars

(* --------------------- vocabulary of the properties --------------------- *)

Header == fieldnames[1]

LogicalNames ==
  {Queried_Device_Name, Neighbor_Device_ID, Neighbor_Platform,
   local_interface, Remote_Interface}

\* for every header a file may have: the position of the first column whose
\* name is the logical name in any letter case, 0 when there is none
ColumnTable ==
  [h \in {FullHeader, NoPlatformHeader} \cup BrokenHeaders |->
     [name \in LogicalNames |->
        LET hits == {i \in 1..Len(h) : lower(h[i]) = lower(name)}
        IN IF hits = {} THEN 0 ELSE Min(hits)]]

\* the header has a column for the logical field, in any letter case
HasColumn(names, name) == ColumnTable[names][name] # 0
ColumnOf(names, name) == ColumnTable[names][name]

MandatoryNames ==
  {Queried_Device_Name, Neighbor_Device_ID, local_interface, Remote_Interface}

\* the line has a field in the column of the logical field
FieldPresent(raw, name) ==
  HasColumn(Header, name) /\ ColumnOf(Header, name) <= Len(raw)
Field(raw, name) == strip(raw[ColumnOf(Header, name)])

\* a valid row: both device names are there and non-empty after trimming
ValidRow(raw) ==
  /\ FieldPresent(raw, Queried_Device_Name)
  /\ FieldPresent(raw, Neighbor_Device_ID)
  /\ Field(raw, Queried_Device_Name) # <<>>
  /\ Field(raw, Neighbor_Device_ID) # <<>>

\* the platform of the line can be read as a string
PlatformReadable(raw) ==
  IF HasColumn(Header, Neighbor_Platform)
  THEN FieldPresent(raw, Neighbor_Platform)
  ELSE Len(raw) <= Len(Header)
PlatformOf(raw) ==
  IF HasColumn(Header, Neighbor_Platform) THEN Field(raw, Neighbor_Platform)
  ELSE <<>>

QueriedKey(raw) == lower(Field(raw, Queried_Device_Name))
NeighborKey(raw) == lower(Field(raw, Neighbor_Device_ID))
PairOf(raw) == {QueriedKey(raw), NeighborKey(raw)}
LabelOf(raw) ==
  Field(raw, local_interface) \o <<32, 45, 45, 32>> \o Field(raw, Remote_Interface)

ValidRows == {i \in 1..Len(rowsRead) : ValidRow(rowsRead[i])}
EdgePair(e) == {e.from, e.to}

\* the pass has read the header with its mandatory columns and has not failed
Building == fieldnames # None /\ AllMandatory(col_map) /\ error = "none"

IdOk(id) ==
  /\ Len(id) > 0
  /\ \A i \in 1..Len(id) :
       id[i] \in (48..57) \cup (65..90) \cup (97..122) \cup {95}

(* ------------------------------ properties ------------------------------ *)

\* C1: as long as the pass has not failed, and so when it ends, the edge list
\* holds exactly one edge for every unordered pair of lower-cased device
\* names found in a valid row read so far, every edge stands for such a pair,
\* and its label is "<local> -- <remote>" of the first row of that pair.
C1_OneEdgePerPairFirstLabel ==
  Building =>
    LET valid == ValidRows
        pair == [i \in valid |-> PairOf(rowsRead[i])]
    IN /\ \A i \in valid :
            Cardinality({j \in 1..Len(edges) : EdgePair(edges[j]) = pair[i]}) = 1
       /\ \A j \in 1..Len(edges) :
            LET rows == {i \in valid : pair[i] = EdgePair(edges[j])}
            IN /\ rows # {}
               /\ edges[j].label = LabelOf(rowsRead[Min(rows)])

\* two rows of one pair, in opposite directions and other letter case, with
\* different interface names, and the diagram was returned
C1_Witness ==
  /\ pc = "done" /\ result # None
  /\ Len(rowsRead) = 2 /\ ValidRows = {1, 2}
  /\ PairOf(rowsRead[1]) = PairOf(rowsRead[2])
  /\ QueriedKey(rowsRead[1]) = NeighborKey(rowsRead[2])
  /\ QueriedKey(rowsRead[1]) # QueriedKey(rowsRead[2])
  /\ LabelOf(rowsRead[1]) # LabelOf(rowsRead[2])
  /\ Len(edges) = 1

\* C2: a node holds at most two platforms in the whole pass, and when it
\* holds a second one the first was "Unknown" and the second is not; the node
\* stays in the mapping with the last of them.
C2_PlatformChangesOnce ==
  \A k \in DOMAIN platform_history :
    LET h == platform_history[k]
    IN /\ Len(h) <= 2
       /\ Len(h) = 2 => (h[1] = Unknown /\ h[2] # Unknown)
       /\ k \in Keys(nodes)
       /\ NodeOf(nodes, k).platform = h[Len(h)]

\* a node went from "Unknown" to the platform of row 1, and row 2 named it
\* as neighbor with another, non-empty platform
C2_Witness ==
  /\ Len(rowsRead) = 2 /\ ValidRows = {1, 2} /\ error = "none"
  /\ PlatformReadable(rowsRead[1]) /\ PlatformReadable(rowsRead[2])
  /\ NeighborKey(rowsRead[1]) = NeighborKey(rowsRead[2])
  /\ LET h == platform_history[NeighborKey(rowsRead[2])]
     IN /\ Len(h) = 2
        /\ h[2] = PlatformOf(rowsRead[1])
        /\ PlatformOf(rowsRead[2]) \notin {<<>>, h[2]}

\* C3: a pass over a file with a malformed line returns a diagram that has
\* the nodes and the edges of the well-formed valid rows.
C3_MalformedRowDoesNotAbort ==
  (/\ pc = "done" /\ fieldnames # None /\ AllMandatory(col_map)
   /\ \E i \in 1..Len(rowsRead) : Len(rowsRead[i]) # Len(Header))
  => /\ result # None
     /\ \A i \in ValidRows :
          Len(rowsRead[i]) = Len(Header) =>
            /\ PairOf(rowsRead[i]) \subseteq Keys(nodes)
            /\ \E j \in 1..Len(edges) : EdgePair(edges[j]) = PairOf(rowsRead[i])

\* C4: the identifiers of the node declarations of a returned diagram are
\* the sanitized keys of the device names of the valid rows, no two
\* declarations show names that differ in letter case only, and every edge
\* declaration joins the two devices of a valid row.
C4_NodeIdsAreValidNames ==
  result # None =>
    LET script == result[1]
        decl == script.node_lines
        ids == {decl[i].node_id : i \in 1..Len(decl)}
        keys == UNION {PairOf(rowsRead[i]) : i \in ValidRows}
    IN /\ ids = {sanitize_for_mermaid_id(k) : k \in keys}
       /\ \A i, j \in 1..Len(decl) :
            lower(decl[i].display_name) = lower(decl[j].display_name) => i = j
       /\ \A j \in 1..Len(script.edge_lines) :
            \E i \in ValidRows :
              {script.edge_lines[j].from_id, script.edge_lines[j].to_id} =
                {sanitize_for_mermaid_id(k) : k \in PairOf(rowsRead[i])}

\* a row with an empty queried name and a neighbor that no valid row names,
\* and a valid row that names one device in two spellings
C4_Witness ==
  /\ pc = "done" /\ result # None /\ Len(rowsRead) = 2
  /\ \E i, j \in 1..2 :
       /\ FieldPresent(rowsRead[i], Queried_Device_Name)
       /\ FieldPresent(rowsRead[i], Neighbor_Device_ID)
       /\ Field(rowsRead[i], Queried_Device_Name) = <<>>
       /\ Field(rowsRead[i], Neighbor_Device_ID) # <<>>
       /\ ValidRow(rowsRead[j])
       /\ Field(rowsRead[j], Queried_Device_Name) # Field(rowsRead[j], Neighbor_Device_ID)
       /\ QueriedKey(rowsRead[j]) = NeighborKey(rowsRead[j])
       /\ NeighborKey(rowsRead[i]) # NeighborKey(rowsRead[j])
  /\ Len(result[1].node_lines) = 1

\* C5: a pass over a file whose header has the four mandatory columns and no
\* Neighbor_Platform column returns a diagram, whatever the rows; every node
\* has platform "Unknown" and no declaration has a platform sub-label.
C5_NoPlatformColumnSucceeds ==
  (/\ pc = "done" /\ fieldnames # None
   /\ ~HasColumn(Header, Neighbor_Platform)
   /\ \A name \in MandatoryNames : HasColumn(Header, name))
  => /\ result # None
     /\ \A i \in 1..Len(nodes) : nodes[i].platform = Unknown
     /\ \A i \in 1..Len(result[1].node_lines) :
          result[1].node_lines[i].display_platform = <<>>

\* C6: once the header is read, a header without a match for one of the
\* mandatory names has ended the pass in the schema error with no diagram
\* and with nothing ingested, and a header that matches all four has not led
\* to the schema error.
C6_SchemaError ==
  (fieldnames # None /\ pc \notin {"open", "columns"}) =>
    IF \E name \in MandatoryNames : ~HasColumn(Header, name)
    THEN /\ pc = "done" /\ error = "schema"
         /\ result = None /\ mermaid_script = None /\ output = "unopened"
         /\ nodes = <<>> /\ edges = <<>> /\ processed_links = {}
         /\ rowsRead = <<>>
    ELSE error # "schema"

\* the pass ended in the schema error on a header without Remote_Interface
C6_Witness ==
  /\ pc = "done" /\ error = "schema" /\ fieldnames # None
  /\ ~HasColumn(Header, Remote_Interface)
  /\ \A name \in MandatoryNames \ {Remote_Interface} : HasColumn(Header, name)

\* C7: every row with a device name that is non-empty after trimming gives
\* a node, and every identifier of a generated script, in node declarations
\* and at both ends of edge declarations, is non-empty, is made of
\* [a-zA-Z0-9_] only and is left unchanged by the sanitization.
C7_SanitizedIds ==
  /\ \A i \in ValidRows : error = "none" => PairOf(rowsRead[i]) \subseteq Keys(nodes)
  /\ mermaid_script # None =>
       LET script == mermaid_script[1]
       IN /\ Len(script.node_lines) = Len(nodes)
          /\ \A i \in 1..Len(script.node_lines) :
               /\ IdOk(script.node_lines[i].node_id)
               /\ sanitize_for_mermaid_id(script.node_lines[i].node_id)
                    = script.node_lines[i].node_id
          /\ \A j \in 1..Len(script.edge_lines) :
               /\ IdOk(script.edge_lines[j].from_id)
               /\ IdOk(script.edge_lines[j].to_id)
               /\ sanitize_for_mermaid_id(script.edge_lines[j].from_id)
                    = script.edge_lines[j].from_id
               /\ sanitize_for_mermaid_id(script.edge_lines[j].to_id)
                    = script.edge_lines[j].to_id

\* a name with a character outside [a-zA-Z0-9_] that is not white space was
\* declared and joined by an edge
C7_Witness ==
  /\ mermaid_script # None
  /\ Len(mermaid_script[1].node_lines) = 1
  /\ Len(mermaid_script[1].edge_lines) = 1
  /\ \E i \in 1..Len(nodes[1].key) :
       ~IsWordChar(nodes[1].key[i]) /\ ~IsSpace(nodes[1].key[i])
  /\ mermaid_script[1].node_lines[1].node_id # nodes[1].key

\* C8: at most two nodes and one edge per row read, both ends of every edge
\* are keys of the node mapping, and both identifiers of every edge
\* declaration of the script have a node declaration.
C8_SizesAndEndpoints ==
  /\ Len(nodes) <= 2 * Len(rowsRead)
  /\ Len(edges) <= Len(rowsRead)
  /\ \A j \in 1..Len(edges) : EdgePair(edges[j]) \subseteq Keys(nodes)
  /\ mermaid_script # None =>
       LET script == mermaid_script[1]
           ids == {script.node_lines[i].node_id : i \in 1..Len(script.node_lines)}
       IN \A j \in 1..Len(script.edge_lines) :
            {script.edge_lines[j].from_id, script.edge_lines[j].to_id} \subseteq ids

\* one row gave two nodes and one edge, and the script was generated
C8_Witness ==
  /\ Len(rowsRead) = 1 /\ Len(nodes) = 2 /\ Len(edges) = 1
  /\ mermaid_script # None
  /\ Len(mermaid_script[1].edge_lines) = 1

\* the step reads a valid row, with a readable platform, whose pair is in
\* the processed set
C9_DuplicateRowStep ==
  /\ pc = "rows"
  /\ Len(rowsRead') = Len(rowsRead) + 1
  /\ LET raw == rowsRead'[Len(rowsRead')]
     IN /\ ValidRow(raw) /\ PlatformReadable(raw)
        /\ \E sig \in processed_links : {sig[1], sig[2]} = PairOf(raw)

\* C9: a step that ingests a valid row whose pair is already processed
\* changes neither the edge list nor the processed set and ends without
\* error; after it both devices are nodes, and a neighbor that was at
\* "Unknown" has the non-empty platform of the row.
C9_DuplicateRowStillUpserts ==
  [][C9_DuplicateRowStep =>
       LET raw == rowsRead'[Len(rowsRead')]
       IN /\ edges' = edges
          /\ processed_links' = processed_links
          /\ pc' = "rows" /\ error' = "none"
          /\ PairOf(raw) \subseteq Keys(nodes')
          /\ (/\ NeighborKey(raw) \in Keys(nodes)
              /\ NodeOf(nodes, NeighborKey(raw)).platform = Unknown
              /\ PlatformOf(raw) # <<>>)
             => NodeOf(nodes', NeighborKey(raw)).platform = PlatformOf(raw)]_vars

\* row 2 repeated the pair of row 1 and upgraded its neighbor from "Unknown"
C9_Witness ==
  /\ Len(rowsRead) = 2 /\ ValidRows = {1, 2} /\ error = "none"
  /\ PairOf(rowsRead[1]) = PairOf(rowsRead[2])
  /\ QueriedKey(rowsRead[2]) # NeighborKey(rowsRead[2])
  /\ Len(edges) = 1
  /\ PlatformReadable(rowsRead[2]) /\ PlatformOf(rowsRead[2]) # <<>>
  /\ NeighborKey(rowsRead[2]) = QueriedKey(rowsRead[1])
  /\ platform_history[NeighborKey(rowsRead[2])] = <<Unknown, PlatformOf(rowsRead[2])>>

\* C10: a pass that reported an error has ended, returns nothing, has built
\* no script and has not opened the output file; a pass that built a
\* script, returned one or opened the output file has reported no error and
\* every line it read had its device names and a readable platform.
C10_NoPartialDiagram ==
  /\ error # "none" =>
       /\ pc = "done" /\ result = None
       /\ mermaid_script = None /\ output = "unopened"
  /\ (mermaid_script # None \/ result # None \/ output # "unopened") =>
       /\ error = "none"
       /\ \A i \in 1..Len(rowsRead) :
            rowsRead[i] # <<>> =>
              /\ FieldPresent(rowsRead[i], Queried_Device_Name)
              /\ FieldPresent(rowsRead[i], Neighbor_Device_ID)
              /\ PlatformReadable(rowsRead[i])

\* the second row raised after the first had given nodes and an edge
C10_Witness ==
  /\ pc = "done" /\ error = "exception"
  /\ Len(rowsRead) = 2 /\ Len(nodes) = 2 /\ Len(edges) = 1
  /\ result = None /\ output = "unopened"

====
